---- MODULE Spec2Model ----
(***************************************************************************)
(* A model of src/repos.py: the ProjectRepos fleet manager.  One object    *)
(* of the class lives per run; the disk, the remote and the snapshot       *)
(* files outlive it.  Every method is one action; the external git         *)
(* operations (clone, pull, checkout) are calls whose outcome the          *)
(* environment decides.                                                    *)
(***************************************************************************)
EXTENDS Integers, Sequences, FiniteSets, TLC

VARIABLES
    repo_dir_exists, \* whether CLONE_DIR / project_name is a directory on disk
    disk,            \* entry of repo_dir, per entry name
    remote,          \* the member ids whose remote repository can be cloned now
    files,           \* the snapshot files in the working directory
    written,         \* ghost: the records _export last wrote to each file
    alive,           \* a ProjectRepos object exists (the run is in progress)
    su_numbers,      \* self.su_numbers: the roster
    dry_run,         \* self.dry_run
    repos,           \* self.repos: the live handles, named by their directory
    outcome,         \* ghost: what the last call did
    prevClone        \* ghost: the last clone, while nothing else happened since

vars == <<repo_dir_exists, disk, remote, files, written, alive, su_numbers,
          dry_run, repos, outcome, prevClone>>

(***************************************************************************)
(* Bounds of the model.                                                    *)
(***************************************************************************)
\* Number of names a roster line or an entry of repo_dir is drawn from.
MaxMembers == 2

(***************************************************************************)
(* Strings are sequences of one-character strings, so that formatting and  *)
(* parsing of snapshot lines are computed, not assumed.                    *)
(***************************************************************************)
SU_A == <<"a">>
SU_B == <<"b">>
SU_C == <<"c">>
\* A roster line is any non-blank stripped line; this one holds a comma.
SU_CSV == <<"x", ",", "y">>

Members == <<SU_A, SU_CSV, SU_B, SU_C>>

\* The names a roster line or an entry of repo_dir can have.
Ids == {Members[i] : i \in 1..MaxMembers}

\* repo.head.commit.hexsha: the commit of a member's repository (one digit
\* stands for the 40 of a sha; no two repositories share a commit).
HexDigits == <<"1", "2", "3", "4">>
Sha(su) == <<HexDigits[CHOOSE i \in 1..Len(Members) : Members[i] = su]>>
Commits == {Sha(su) : su \in Ids}

\* The head of a repository whose HEAD resolves to no commit.
NoCommit == <<>>

\* The rosters a run is started with: every member, or all but one.
Rosters == {Ids} \cup {Ids \ {su} : su \in Ids}

\* The sets of members whose remote repository can be reached.
Reachables == {{SU_A}, Ids}

Whitespace == {" ", "\n"}

\* str.strip()
RECURSIVE LStrip(_)
LStrip(s) ==
    IF s # <<>> /\ Head(s) \in Whitespace THEN LStrip(Tail(s)) ELSE s

RECURSIVE RStrip(_)
RStrip(s) ==
    IF s # <<>> /\ s[Len(s)] \in Whitespace
    THEN RStrip(SubSeq(s, 1, Len(s) - 1))
    ELSE s

Strip(s) == RStrip(LStrip(s))

\* str.split(","): the fields between the commas, at least one.
RECURSIVE SplitFrom(_, _, _)
SplitFrom(s, i, field) ==
    IF i > Len(s) THEN <<field>>
    ELSE IF s[i] = "," THEN <<field>> \o SplitFrom(s, i + 1, <<>>)
    ELSE SplitFrom(s, i + 1, Append(field, s[i]))

Split(s) == SplitFrom(s, 1, <<>>)

\* The lines of a text, each with its line break, as file.readlines() gives them.
RECURSIVE LinesFrom(_, _, _)
LinesFrom(t, i, line) ==
    IF i > Len(t) THEN (IF line = <<>> THEN <<>> ELSE <<line>>)
    ELSE IF t[i] = "\n" THEN <<Append(line, "\n")>> \o LinesFrom(t, i + 1, <<>>)
    ELSE LinesFrom(t, i + 1, Append(line, t[i]))

ReadLines(t) == LinesFrom(t, 1, <<>>)

\* f"{repo_2_su(repo)},{repo.head.commit.hexsha}\n"
ExportLine(su, hexsha) == su \o <<",">> \o hexsha \o <<"\n">>


\* All orders in which a set can be iterated.
Orders(S) ==
    {o \in [1..Cardinality(S) -> S] : \A i, j \in 1..Cardinality(S) : o[i] = o[j] => i = j}

(***************************************************************************)
(* The disk, the remote and the files.                                     *)
(***************************************************************************)
\* An entry of repo_dir: nothing; a plain file or a directory that holds files
\* but no .git; a directory whose .git is not a repository; or a working copy.
Absent == [kind |-> "none", head |-> NoCommit]
PlainDir == [kind |-> "dir", head |-> NoCommit]
BadGitDir == [kind |-> "badgit", head |-> NoCommit]
WorkingCopy(h) == [kind |-> "repo", head |-> h]
EntriesOf(su) ==
    {Absent, PlainDir, BadGitDir, WorkingCopy(NoCommit), WorkingCopy(Sha(su))}

SWITCHED == "switched_repos.csv"
FileNames == {SWITCHED}

NoFile == [exists |-> FALSE, text |-> <<>>]
FileOf(t) == [exists |-> TRUE, text |-> t]

\* A failed git command (git.exc.GitCommandError), as a result of a call.
GitError == <<"!">>

\* Snapshot files written by hand: a header and records; a record without a comma.
HeaderLine == <<"s", ",", "c", "\n">>
HandWritten ==
    { HeaderLine \o ExportLine(SU_B, Sha(SU_B)) \o ExportLine(SU_A, Sha(SU_A)),
      HeaderLine \o <<"a", "\n">> \o ExportLine(SU_A, Sha(SU_A)) }

NoCalls == [su \in Ids |-> 0]

\* The summary line of a batch, when none is logged.
NoSummary == <<>>

\* What a call reports: the ghost record of the last call.
NoOutcome ==
    [op |-> "none", raised |-> "", warned |-> FALSE, dry |-> FALSE,
     roster |-> {}, ws |-> {}, visits |-> NoCalls, attempts |-> NoCalls,
     ok |-> {}, stderr |-> {}, file |-> "", recs |-> <<>>, skipped |-> {},
     reported |-> FALSE, missing |-> {}, extra |-> {}, present |-> {},
     follows |-> FALSE, rescanned |-> FALSE, prev_ws |-> {}, prev_ok |-> {},
     summary |-> NoSummary]

\* The state a batch loop works on.
Batch(d, rs) ==
    [disk |-> d, repos |-> rs, visits |-> NoCalls, attempts |-> NoCalls,
     ok |-> {}, stderr |-> {}, recs |-> <<>>, skipped |-> {}, raised |-> ""]

\* Mutant: the handler is missing, the exception leaves the loop.
ExceptNothing(st, su, exc) == [st EXCEPT !.raised = exc]

\* Mutant: the handler also drops the failing repository from self.repos.
ExceptDrops(st, su, exc) ==
    [st EXCEPT !.stderr = @ \cup {su}, !.repos = @ \ {su}]

\* except Exception as e: tqdm.write(..., file=sys.stderr); the loop goes on.
ExceptException(st, su, exc) == [st EXCEPT !.stderr = @ \cup {su}]

(***************************************************************************)
(* __init__ and locate.                                                    *)
(***************************************************************************)
\* is_dir() and (repo_dir / ".git").exists()
HasMarker(d, su) == d[su].kind \in {"repo", "badgit"}

\* locate: iterdir() raises when repo_dir is missing; an entry counts when it is
\* a directory holding .git, and Repo(repo_dir) raises when that .git is not a
\* repository; an empty result is a warning.
Locate(exists, d) ==
    IF ~exists
    THEN [raised |-> "FileNotFoundError", repos |-> {}, warned |-> FALSE]
    ELSE IF \E su \in Ids : HasMarker(d, su) /\ d[su].kind # "repo"
    THEN [raised |-> "InvalidGitRepositoryError", repos |-> {}, warned |-> FALSE]
    ELSE [raised |-> "", repos |-> {su \in Ids : d[su].kind = "repo"},
          warned |-> {su \in Ids : d[su].kind = "repo"} = {}]

NoPrev ==
    [valid |-> FALSE, rescanned |-> FALSE, roster |-> {}, dry |-> FALSE,
     ws |-> {}, ok |-> {}]

\* Ghost: the last clone is remembered into a run started the same way.
PrevKept(loc, roster, dry) ==
    prevClone' = IF loc.raised = "" /\ prevClone.valid /\ prevClone.roster = roster
                    /\ prevClone.dry = dry
                 THEN [prevClone EXCEPT !.rescanned = TRUE] ELSE NoPrev

\* ProjectRepos(su_numbers, project_name, dry_run): locate(), then mkdir().  An
\* exception of locate() leaves the constructor before mkdir() and ends the run.
Start(roster, dry) ==
    /\ ~alive
    /\ \E loc \in {Locate(repo_dir_exists, disk)} :
       /\ PrevKept(loc, roster, dry)
       /\ outcome' = [NoOutcome EXCEPT !.op = "init", !.raised = loc.raised,
                         !.warned = loc.warned, !.dry = dry, !.roster = roster,
                         !.present = loc.repos]
       /\ IF loc.raised # ""
          THEN UNCHANGED <<repo_dir_exists, alive, su_numbers, dry_run, repos>>
          ELSE /\ repo_dir_exists' = TRUE
               /\ alive' = TRUE
               /\ su_numbers' = roster
               /\ dry_run' = dry
               /\ repos' = loc.repos
    /\ UNCHANGED <<disk, remote, files, written>>

\* open(args.student_numbers_file, "r") raises (lines 309-311): the roster file
\* cannot be read and the run ends before an object is made.
RosterUnreadable ==
    /\ ~alive
    /\ outcome' = [NoOutcome EXCEPT !.op = "main", !.raised = "OSError"]
    /\ prevClone' = NoPrev
    /\ UNCHANGED <<repo_dir_exists, disk, remote, files, written, alive,
                   su_numbers, dry_run, repos>>

\* sys.exit(0): the object is dropped; the disk and the files stay.
Exit ==
    /\ alive
    /\ alive' = FALSE
    /\ su_numbers' = {}
    /\ dry_run' = FALSE
    /\ repos' = {}
    /\ outcome' = NoOutcome
    /\ UNCHANGED <<repo_dir_exists, disk, remote, files, written, prevClone>>

\* The uncaught exception of a method ends the run; otherwise the object lives on.
Ends(raised, rs) ==
    IF raised # ""
    THEN alive' = FALSE /\ su_numbers' = {} /\ dry_run' = FALSE /\ repos' = {}
    ELSE repos' = rs /\ UNCHANGED <<alive, su_numbers, dry_run>>

\* What the remote of each member to clone holds: its commit, or nothing yet.
\* Nothing is asked of the remote in a dry run.
RemoteHeads(ws) ==
    {h \in [ws -> Commits \cup {NoCommit}] :
        \A su \in ws : h[su] \in (IF dry_run THEN {NoCommit} ELSE {NoCommit, Sha(su)})}

\* What git answers for each repository: the commit it moves to, or an error.
\* Git is not called in a dry run.
GitResults(rs) ==
    {r \in [rs -> Commits \cup {GitError}] :
        \A su \in rs : r[su] \in (IF dry_run THEN {GitError} ELSE {GitError, Sha(su)})}

(***************************************************************************)
(* clone                                                                   *)
(***************************************************************************)
\* Mutant: the roster itself is the working set.
CloneWorkingSetAll(roster, rs) == roster

\* su_numbers = self.su_numbers - set(repo_2_su(repo) for repo in self.repos)
CloneWorkingSet(roster, rs) == roster \ rs

\* Repo.clone_from(url, repo_dir / su_number): git refuses a target that exists
\* and fails when the remote cannot be reached; head is what the remote holds.
CloneFrom(d, su, head) ==
    IF su \in remote /\ d[su].kind = "none"
    THEN [d EXCEPT ![su] = WorkingCopy(head)]
    ELSE d

CloneFails(d, su) == ~(su \in remote /\ d[su].kind = "none")

\* Mutant: the new repository is not added to self.repos.
CloneForgets(st, su) == [st EXCEPT !.ok = @ \cup {su}]

\* self.repos.add(repo)
CloneAdds(st, su) == [st EXCEPT !.repos = @ \cup {su}, !.ok = @ \cup {su}]

\* for su_number in tqdm(su_numbers): ... (lines 127-146)
RECURSIVE CloneLoop(_, _, _, _)
CloneLoop(order, i, heads, st) ==
    IF i > Len(order) \/ st.raised # "" THEN st
    ELSE LET su == order[i]
             seen == [st EXCEPT !.visits[su] = @ + 1]
             tried == [seen EXCEPT !.attempts[su] = @ + 1]
         IN  IF dry_run THEN CloneLoop(order, i + 1, heads, seen)
             ELSE IF CloneFails(st.disk, su)
             THEN CloneLoop(order, i + 1, heads,
                            ExceptException(tried, su, "GitCommandError"))
             ELSE CloneLoop(order, i + 1, heads,
                            CloneAdds([tried EXCEPT !.disk = CloneFrom(st.disk, su, heads[su])], su))

Clone ==
    /\ alive
    /\ \E ws \in {CloneWorkingSet(su_numbers, repos)} :
       \E order \in Orders(ws), heads \in RemoteHeads(ws) :
          \E st \in {CloneLoop(order, 1, heads, Batch(disk, repos))} :
          LET same == prevClone.valid /\ prevClone.roster = su_numbers
                      /\ prevClone.dry = dry_run
          IN  /\ disk' = st.disk
              /\ outcome' = [NoOutcome EXCEPT !.op = "clone", !.raised = st.raised,
                                !.warned = (repos # {}), !.dry = dry_run,
                                !.roster = su_numbers, !.ws = ws, !.visits = st.visits,
                                !.attempts = st.attempts, !.ok = st.ok,
                                !.stderr = st.stderr, !.present = repos,
                                !.follows = same, !.rescanned = prevClone.rescanned,
                                !.prev_ws = prevClone.ws,
                                !.prev_ok = prevClone.ok]
              /\ prevClone' = [valid |-> st.raised = "", rescanned |-> FALSE,
                               roster |-> su_numbers,
                               dry |-> dry_run, ws |-> ws, ok |-> st.ok]
              /\ Ends(st.raised, st.repos)
    /\ UNCHANGED <<repo_dir_exists, remote, files, written>>

(***************************************************************************)
(* pull                                                                    *)
(***************************************************************************)
\* repo.git.pull(): the head moves to what the remote holds, or git fails.
GitPull(d, su, result) == [d EXCEPT ![su] = WorkingCopy(result)]

\* for repo in tqdm(self.repos): ... (lines 160-171)
RECURSIVE PullLoop(_, _, _, _)
PullLoop(order, i, result, st) ==
    IF i > Len(order) \/ st.raised # "" THEN st
    ELSE LET su == order[i]
             seen == [st EXCEPT !.visits[su] = @ + 1]
             tried == [seen EXCEPT !.attempts[su] = @ + 1]
         IN  IF dry_run THEN PullLoop(order, i + 1, result, seen)
             ELSE IF result[su] = GitError
             THEN PullLoop(order, i + 1, result,
                           ExceptException(tried, su, "GitCommandError"))
             ELSE PullLoop(order, i + 1, result,
                           [tried EXCEPT !.disk = GitPull(st.disk, su, result[su]),
                                         !.ok = @ \cup {su}])

Pull ==
    /\ alive
    /\ \E order \in Orders(repos), result \in GitResults(repos) :
          \E st \in {PullLoop(order, 1, result, Batch(disk, repos))} :
          /\ disk' = st.disk
          /\ outcome' = [NoOutcome EXCEPT !.op = "pull", !.raised = st.raised,
                            !.warned = (repos = {}), !.dry = dry_run,
                            !.roster = su_numbers, !.ws = repos, !.visits = st.visits,
                            !.attempts = st.attempts, !.ok = st.ok,
                            !.stderr = st.stderr, !.present = repos]
          /\ Ends(st.raised, st.repos)
    /\ prevClone' = NoPrev
    /\ UNCHANGED <<repo_dir_exists, remote, files, written>>

(***************************************************************************)
(* _export, switch and export_commits                                      *)
(***************************************************************************)
\* for repo in tqdm(repos): f.write(...) (lines 200-201).  repo.head.commit
\* raises ValueError when HEAD resolves to no commit; the with-block closes
\* the file with the lines written so far.
RECURSIVE ExportLoop(_, _, _, _)
ExportLoop(order, i, d, st) ==
    IF i > Len(order) \/ st.raised # "" THEN st
    ELSE LET su == order[i] IN
         IF d[su].head = NoCommit THEN [st EXCEPT !.raised = "ValueError"]
         ELSE ExportLoop(order, i + 1, d,
                         [st EXCEPT !.text = @ \o ExportLine(su, d[su].head),
                                    !.recs = Append(@, <<su, d[su].head>>)])

\* _export(repos, out_file): open(out_file, "w") truncates, then the loop.
Export(order, d) ==
    ExportLoop(order, 1, d, [text |-> <<>>, recs |-> <<>>, raised |-> ""])

\* repo.git.checkout(ref): the head moves to the commit the reference names.
GitCheckout(d, su, commit) == [d EXCEPT ![su] = WorkingCopy(commit)]

\* for repo in tqdm(self.repos): ... (lines 176-188)
RECURSIVE SwitchLoop(_, _, _, _)
SwitchLoop(order, i, result, st) ==
    IF i > Len(order) \/ st.raised # "" THEN st
    ELSE LET su == order[i]
             seen == [st EXCEPT !.visits[su] = @ + 1]
             tried == [seen EXCEPT !.attempts[su] = @ + 1]
         IN  IF dry_run THEN SwitchLoop(order, i + 1, result, seen)
             ELSE IF result[su] = GitError
             THEN SwitchLoop(order, i + 1, result,
                             ExceptException(tried, su, "GitCommandError"))
             ELSE SwitchLoop(order, i + 1, result,
                             [tried EXCEPT !.disk = GitCheckout(st.disk, su, result[su]),
                                           !.ok = @ \cup {su}])

\* Mutant: the summary counts the repositories visited as switched.
SwitchSummaryOfAll(st, roster) ==
    <<Cardinality(st.repos), Cardinality(st.repos), Cardinality(roster)>>

\* logging.info(f"... {len(successes)}/{len(self.repos)}/{len(self.su_numbers)}
\* switched/total repos/students.")
SwitchSummary(st, roster) ==
    <<Cardinality(st.ok), Cardinality(st.repos), Cardinality(roster)>>

\* Mutant: every repository is exported, switched or not.
SwitchExportsAll(st) == st.repos

\* self._export(successes, "switched_repos.csv")
SwitchExports(st) == st.ok

\* switch(branch_like): result[su] is what branch_like names in su's repository.
Switch ==
    /\ alive
    /\ \E order \in Orders(repos), result \in GitResults(repos) :
          \E st \in {SwitchLoop(order, 1, result, Batch(disk, repos))} :
          \E xorder \in Orders(SwitchExports(st)) :
          \E ex \in {IF st.raised # ""
                     THEN [text |-> <<>>, recs |-> <<>>, raised |-> st.raised]
                     ELSE Export(xorder, st.disk)} :
                 /\ disk' = st.disk
                 /\ IF st.raised # ""
                    THEN UNCHANGED <<files, written>>
                    ELSE /\ files' = [files EXCEPT ![SWITCHED] = FileOf(ex.text)]
                         /\ written' = [written EXCEPT ![SWITCHED] =
                                           [by |-> "switch", recs |-> ex.recs]]
                 /\ outcome' = [NoOutcome EXCEPT !.op = "switch", !.raised = ex.raised,
                                   !.dry = dry_run, !.roster = su_numbers,
                                   !.ws = repos, !.visits = st.visits,
                                   !.attempts = st.attempts, !.ok = st.ok,
                                   !.stderr = st.stderr, !.file = SWITCHED,
                                   !.recs = ex.recs, !.present = repos,
                                   !.summary = SwitchSummary(st, su_numbers)]
                 /\ Ends(ex.raised, st.repos)
    /\ prevClone' = NoPrev
    /\ UNCHANGED <<repo_dir_exists, remote>>

\* export_commits(out_file): self._export(self.repos, out_file)
ExportCommits ==
    /\ alive
    /\ \E out_file \in FileNames, order \in Orders(repos) :
          \E ex \in {Export(order, disk)} :
          /\ files' = [files EXCEPT ![out_file] = FileOf(ex.text)]
          /\ written' = [written EXCEPT ![out_file] =
                            [by |-> "export-commits", recs |-> ex.recs]]
          /\ outcome' = [NoOutcome EXCEPT !.op = "export-commits", !.raised = ex.raised,
                            !.dry = dry_run, !.roster = su_numbers, !.ws = repos,
                            !.file = out_file, !.recs = ex.recs, !.present = repos]
          /\ Ends(ex.raised, repos)
    /\ prevClone' = NoPrev
    /\ UNCHANGED <<repo_dir_exists, disk, remote>>

(***************************************************************************)
(* checkout_commits                                                        *)
(***************************************************************************)
\* f.readline()  # Skip header line; then f.readlines()
SkipHeader(lines) == IF lines = <<>> THEN <<>> ELSE Tail(lines)

\* (self.repo_dir / su_number).exists(); an empty name is repo_dir itself.
PathExists(d, su) == su = <<>> \/ (su \in Ids /\ d[su].kind # "none")

\* Repo(path) raises InvalidGitRepositoryError unless path is a working copy.
IsWorkingCopy(d, su) == su \in Ids /\ d[su].kind = "repo"

\* Mutant: a missing target is handled as a failure of the record.
SkipAsFailure(st, su) == [st EXCEPT !.stderr = @ \cup {su}]

\* logging.warning(f"Repository for {su_number} does not exist."); continue
SkipMissing(st, su) == [st EXCEPT !.skipped = @ \cup {su}]

\* Mutant: the ids found in the file are reported on, checked out or not.
CheckedAll(st) == {st.recs[i][1] : i \in 1..Len(st.recs)}

\* checked: the ids whose checkout succeeded (line 232)
Checked(st) == st.ok

\* for line in tqdm(f.readlines()): ... (lines 222-237).  The split and the
\* unpacking stand outside the try: a line that is not two fields raises.
RECURSIVE CheckoutLoop(_, _, _, _)
CheckoutLoop(lines, i, okAt, st) ==
    IF i > Len(lines) \/ st.raised # "" THEN st
    ELSE LET fields == Split(Strip(lines[i])) IN
         IF Len(fields) # 2 THEN [st EXCEPT !.raised = "ValueError"]
         ELSE LET su == fields[1]
                  commit_hash == fields[2]
                  seen == [st EXCEPT !.recs = Append(@, <<su, commit_hash>>)]
              IN  IF ~PathExists(st.disk, su)
                  THEN CheckoutLoop(lines, i + 1, okAt, SkipMissing(seen, su))
                  ELSE IF ~IsWorkingCopy(st.disk, su)
                  THEN CheckoutLoop(lines, i + 1, okAt,
                                    ExceptException(seen, su, "InvalidGitRepositoryError"))
                  ELSE IF commit_hash # Sha(su) \/ ~okAt[i]
                  THEN CheckoutLoop(lines, i + 1, okAt,
                                    ExceptException([seen EXCEPT !.attempts[su] = @ + 1],
                                                    su, "GitCommandError"))
                  ELSE CheckoutLoop(lines, i + 1, okAt,
                                    [seen EXCEPT !.attempts[su] = @ + 1,
                                                 !.disk = GitCheckout(st.disk, su, commit_hash),
                                                 !.ok = @ \cup {su}])

\* checkout_commits(in_file): okAt[i] is whether git can check out the commit
\* of the i-th record.  The method does not read self.dry_run.
CheckoutCommits ==
    /\ alive
    /\ \E in_file \in FileNames :
          IF ~files[in_file].exists
          THEN /\ outcome' = [NoOutcome EXCEPT !.op = "checkout-commits",
                                 !.raised = "FileNotFoundError", !.dry = dry_run,
                                 !.roster = su_numbers, !.file = in_file,
                                 !.present = repos]
               /\ Ends("FileNotFoundError", repos)
               /\ UNCHANGED disk
          ELSE \E lines \in {SkipHeader(ReadLines(files[in_file].text))} :
               \E okAt \in [1..Len(lines) -> BOOLEAN] :
               \E st \in {CheckoutLoop(lines, 1, okAt, Batch(disk, repos))} :
                  /\ disk' = st.disk
                  /\ outcome' = [NoOutcome EXCEPT !.op = "checkout-commits",
                                    !.raised = st.raised, !.dry = dry_run,
                                    !.roster = su_numbers, !.attempts = st.attempts,
                                    !.ok = st.ok, !.stderr = st.stderr,
                                    !.file = in_file, !.recs = st.recs,
                                    !.skipped = st.skipped,
                                    !.reported = (st.raised = ""),
                                    !.missing = IF st.raised = ""
                                                THEN su_numbers \ Checked(st) ELSE {},
                                    !.extra = IF st.raised = ""
                                              THEN Checked(st) \ su_numbers ELSE {},
                                    !.present = repos]
                  /\ Ends(st.raised, repos)
    /\ prevClone' = NoPrev
    /\ UNCHANGED <<repo_dir_exists, remote, files, written>>

(***************************************************************************)
(* The environment: the network and the user.                              *)
(***************************************************************************)
\* Remote repositories become reachable or unreachable.
EnvRemote ==
    /\ \E r \in Reachables : r # remote /\ remote' = r
    /\ prevClone' = NoPrev
    /\ UNCHANGED <<repo_dir_exists, disk, files, written, alive, su_numbers,
                   dry_run, repos, outcome>>

\* The user creates CLONE_DIR / project_name by hand.
EnvMkdir ==
    /\ ~repo_dir_exists
    /\ repo_dir_exists' = TRUE
    /\ prevClone' = NoPrev
    /\ UNCHANGED <<disk, remote, files, written, alive, su_numbers, dry_run,
                   repos, outcome>>

Init ==
    /\ repo_dir_exists \in BOOLEAN
    /\ disk \in {d \in [Ids -> UNION {EntriesOf(su) : su \in Ids}] :
                   \A su \in Ids : d[su] \in EntriesOf(su)}
    /\ ~repo_dir_exists => \A su \in Ids : disk[su] = Absent
    /\ remote \in Reachables
    /\ files \in {[f \in FileNames |-> h] :
                     h \in {NoFile} \cup {FileOf(t) : t \in HandWritten}}
    /\ written = [f \in FileNames |-> [by |-> "", recs |-> <<>>]]
    /\ alive = FALSE
    /\ su_numbers = {}
    /\ dry_run = FALSE
    /\ repos = {}
    /\ outcome = NoOutcome
    /\ prevClone = NoPrev

Next ==
    \/ RosterUnreadable
    \/ \E roster \in Rosters, dry \in BOOLEAN : Start(roster, dry)
    \/ Clone
    \/ Pull
    \/ Switch
    \/ ExportCommits
    \/ CheckoutCommits
    \/ Exit
    \/ EnvRemote
    \/ EnvMkdir

Spec == Init /\ [][Next]_vars

(***************************************************************************)
(* Repeated clone runs: `repos.py roster proj clone` is run again and      *)
(* again, every remote can be reached and no target is in the way, so a    *)
(* clone that is attempted succeeds.                                       *)
(***************************************************************************)
CloneRun == \E roster \in Rosters : Start(roster, FALSE)

LiveInit ==
    /\ Init
    /\ remote = Ids
    /\ \A su \in Ids : disk[su] # PlainDir

LiveNext ==
    \/ CloneRun
    \/ Clone
    \/ Exit
    \/ EnvMkdir

LiveSpec ==
    LiveInit /\ [][LiveNext]_vars /\ SF_vars(CloneRun) /\ SF_vars(Clone)

(***************************************************************************)
(* Helpers of the claims.                                                  *)
(***************************************************************************)
BatchOps == {"clone", "pull", "switch"}

\* How often a member of working set ws is visited in a full pass.
Once(ws) == [su \in Ids |-> IF su \in ws THEN 1 ELSE 0]

\* The ids of a sequence of records.
IdsOf(recs) == {recs[i][1] : i \in 1..Len(recs)}

\* An id that a snapshot line gives back unchanged.
SafeId(su) == Strip(su) = su /\ \A i \in 1..Len(su) : su[i] # ","

\* The records of a snapshot, without the first.
AllButFirst(recs) == IF recs = <<>> THEN <<>> ELSE Tail(recs)

(***************************************************************************)
(* C1.  Failure isolation.  After clone, pull or switch, whichever         *)
(* members failed, the batch was not aborted by an exception and every     *)
(* member of the working set was visited exactly once and, outside a dry   *)
(* run, attempted exactly once; the members reported on stderr are the     *)
(* attempted ones that did not succeed.                                    *)
(***************************************************************************)
C1_FailureIsolation ==
    outcome.op \in BatchOps =>
        /\ outcome.raised = ""
        /\ outcome.visits = Once(outcome.ws)
        /\ outcome.attempts = IF outcome.dry THEN NoCalls ELSE Once(outcome.ws)
        /\ outcome.stderr = IF outcome.dry THEN {} ELSE outcome.ws \ outcome.ok

\* A batch in which one member failed and another succeeded.
C1_Witness ==
    /\ outcome.op \in BatchOps
    /\ ~outcome.dry
    /\ outcome.stderr # {}
    /\ outcome.ok # {}

(***************************************************************************)
(* C2.  Dry-run purity.  A clone, pull or switch step of a run started     *)
(* with dry_run changes neither repo_dir, nor any repository, nor any      *)
(* file.                                                                   *)
(***************************************************************************)
C2_DryRunPurity ==
    [][(dry_run /\ (Clone \/ Pull \/ Switch))
          => UNCHANGED <<repo_dir_exists, disk, files>>]_vars

(***************************************************************************)
(* C3.  Clone idempotence.  As claimed: a clone that follows a clone of    *)
(* the same roster (in the same run, or in the next run after a re-scan),  *)
(* with nothing else done or changed in between, clones nothing and has an *)
(* empty working set.                                                      *)
(***************************************************************************)
C3_SecondCloneEmpty ==
    (outcome.op = "clone" /\ outcome.follows /\ ~outcome.dry) =>
        /\ outcome.ok = {}
        /\ outcome.ws = {}

(***************************************************************************)
(* C3, amended.  Such a second clone clones nothing; its working set is    *)
(* what the first left uncloned: the first working set minus the members   *)
(* the first clone succeeded on.                                           *)
(***************************************************************************)
C3_SecondCloneClonesNothing ==
    (outcome.op = "clone" /\ outcome.follows) =>
        /\ outcome.ok = {}
        /\ outcome.ws = outcome.prev_ws \ outcome.prev_ok

\* A second clone in a new run, after a first that cloned one member and
\* failed on another.
C3_Witness ==
    /\ outcome.op = "clone"
    /\ outcome.follows
    /\ outcome.rescanned
    /\ ~outcome.dry
    /\ outcome.prev_ok # {}
    /\ outcome.ws # {}

(***************************************************************************)
(* C4.  Empty fleet.  Starting a run when no entry of repo_dir holds a     *)
(* .git, repo_dir missing included, does not fail: the constructor only    *)
(* warns and the object is there for clone.                                *)
(***************************************************************************)
C4_EmptyFleetStarts ==
    (outcome.op = "init" /\ \A su \in Ids : ~HasMarker(disk, su)) =>
        /\ outcome.raised = ""
        /\ outcome.warned
        /\ alive

(***************************************************************************)
(* C5.  Drift on restore.  As claimed: the reported missing set is the     *)
(* roster minus the ids found in the file, the extra set the ids found     *)
(* minus the roster, whatever happened to each record.                     *)
(***************************************************************************)
C5_DriftOfFileIds ==
    (outcome.op = "checkout-commits" /\ outcome.reported) =>
        /\ outcome.missing = outcome.roster \ IdsOf(outcome.recs)
        /\ outcome.extra = IdsOf(outcome.recs) \ outcome.roster

(***************************************************************************)
(* C5, amended.  The reported sets compare the roster with the ids whose   *)
(* checkout succeeded: a record whose target is absent, or whose checkout  *)
(* failed, counts as not found.                                            *)
(***************************************************************************)
C5_DriftOfCheckedOut ==
    (outcome.op = "checkout-commits" /\ outcome.reported) =>
        /\ outcome.missing = outcome.roster \ outcome.ok
        /\ outcome.extra = outcome.ok \ outcome.roster
        /\ outcome.ok \subseteq IdsOf(outcome.recs) \ outcome.skipped
        /\ IdsOf(outcome.recs) \subseteq outcome.ok \cup outcome.skipped \cup outcome.stderr

\* A restore that reports a missing and an extra member and skipped a record.
C5_Witness ==
    /\ outcome.op = "checkout-commits"
    /\ outcome.reported
    /\ outcome.missing # {}
    /\ outcome.extra # {}
    /\ outcome.skipped # {}

(***************************************************************************)
(* C6.  Round trip.  Restoring from a file that _export wrote acts on      *)
(* exactly the exported records except the first, ids and commits as       *)
(* exported, whatever the ids of the exported repositories.                *)
(***************************************************************************)
C6_RoundTripAnyId ==
    (outcome.op = "checkout-commits" /\ outcome.raised # "FileNotFoundError"
        /\ written[outcome.file].by # "") =>
        /\ outcome.raised = ""
        /\ outcome.recs = AllButFirst(written[outcome.file].recs)

(***************************************************************************)
(* The part of the round trip the code keeps: the same, when the ids of    *)
(* the exported records (after the first) hold no comma and no blank at    *)
(* either end; a file of one record restores nothing.                      *)
(***************************************************************************)
RoundTripOfSafeIds ==
    (outcome.op = "checkout-commits" /\ outcome.raised # "FileNotFoundError"
        /\ written[outcome.file].by # ""
        /\ \A su \in IdsOf(AllButFirst(written[outcome.file].recs)) : SafeId(su)) =>
        /\ outcome.raised = ""
        /\ outcome.recs = AllButFirst(written[outcome.file].recs)
        /\ Len(written[outcome.file].recs) <= 1 =>
              outcome.ok = {} /\ outcome.attempts = NoCalls

\* A restore from an export of two records that checked out the second.
RoundTripOfSafeIdsReached ==
    /\ outcome.op = "checkout-commits"
    /\ written[outcome.file].by = "export-commits"
    /\ Len(written[outcome.file].recs) = 2
    /\ outcome.recs = Tail(written[outcome.file].recs)
    /\ outcome.ok # {}

(***************************************************************************)
(* C7.  Export completeness.  After export-commits the file holds exactly  *)
(* one id,commit line per present repository, whatever their heads.        *)
(***************************************************************************)
C7_ExportComplete ==
    outcome.op = "export-commits" =>
        LET lines == ReadLines(files[outcome.file].text) IN
        /\ files[outcome.file].exists
        /\ Len(lines) = Cardinality(outcome.present)
        /\ \A su \in outcome.present :
              \E i \in 1..Len(lines) : \E h \in Commits : lines[i] = ExportLine(su, h)

(***************************************************************************)
(* C8.  Reconciliation.  At every clone the working set is the roster      *)
(* minus the present ids: disjoint from them, inside the roster, and       *)
(* covering the roster together with them.                                 *)
(***************************************************************************)
C8_Reconciliation ==
    outcome.op = "clone" =>
        /\ outcome.ws = outcome.roster \ outcome.present
        /\ outcome.ws \cap outcome.present = {}
        /\ outcome.ws \subseteq outcome.roster
        /\ outcome.roster \subseteq outcome.ws \cup outcome.present

\* A clone over a roster of which one member is present and another is not.
C8_Witness ==
    /\ outcome.op = "clone"
    /\ outcome.ws # {}
    /\ outcome.present \cap outcome.roster # {}

(***************************************************************************)
(* C9.  Restore never raises.  Over a file that can be read, no record     *)
(* makes checkout-commits raise: every record after the first is           *)
(* processed and the drift report is made.                                 *)
(***************************************************************************)
C9_RestoreNeverRaises ==
    (outcome.op = "checkout-commits" /\ outcome.raised # "FileNotFoundError") =>
        /\ outcome.raised = ""
        /\ outcome.reported

(***************************************************************************)
(* C10.  Switch export.  After switch, switched_repos.csv exists and holds *)
(* exactly one id,commit line for each repository whose checkout           *)
(* succeeded, with the commit it is now at, and no line for any other; the *)
(* switched ones are among the present ones.                               *)
(***************************************************************************)
C10_SwitchedFile ==
    outcome.op = "switch" =>
        LET lines == ReadLines(files[SWITCHED].text) IN
        /\ outcome.raised = ""
        /\ files[SWITCHED].exists
        /\ Len(lines) = Cardinality(outcome.ok)
        /\ \A su \in outcome.ok :
              \E i \in 1..Len(lines) : lines[i] = ExportLine(su, disk[su].head)
        /\ \A i \in 1..Len(lines) :
              \E su \in outcome.ok : lines[i] = ExportLine(su, disk[su].head)
        /\ outcome.ok = IF outcome.dry THEN {} ELSE outcome.present \ outcome.stderr
        /\ Cardinality(outcome.ok) <= Cardinality(outcome.present)

\* A switch that succeeded on one repository and failed on another.
C10_Witness ==
    /\ outcome.op = "switch"
    /\ outcome.ok # {}
    /\ outcome.stderr # {}

(***************************************************************************)
(* C11.  Clone updates the live collection.  A clone leaves the present    *)
(* set equal to the present set before it (outcome.present) plus exactly   *)
(* the members whose clone succeeded, none of them a member that failed,   *)
(* and adds nothing in a dry run; a later pull, switch or export-commits   *)
(* of the same run works on the whole present set as it found it.          *)
(***************************************************************************)
C11_CloneUpdatesPresent ==
    /\ outcome.op = "clone" =>
          /\ alive
          /\ repos = outcome.present \cup outcome.ok
          /\ outcome.ok \cap outcome.stderr = {}
          /\ outcome.ok \subseteq outcome.ws
          /\ outcome.ok \cap outcome.present = {}
          /\ outcome.dry => repos = outcome.present
    /\ outcome.op \in {"pull", "switch", "export-commits"} =>
          /\ outcome.ws = outcome.present
          /\ alive => repos = outcome.present

\* After a clone that added one member and failed on another.
C11_Witness ==
    /\ alive
    /\ outcome.op = "clone"
    /\ outcome.ok # {}
    /\ outcome.stderr # {}
    /\ repos = outcome.present \cup outcome.ok
    /\ repos # outcome.present

(***************************************************************************)
(* C12.  Exit code.  A run whose batch reached its end goes on to          *)
(* sys.exit(0), whatever members failed; a run ends otherwise (an uncaught *)
(* exception, a non-zero exit) only on a structural error: a file named on *)
(* the command line that cannot be opened.                                 *)
(***************************************************************************)
StructuralError(o) ==
    \/ o.op = "main"
    \/ o.op = "checkout-commits" /\ o.raised = "FileNotFoundError"

C12_ExitCode ==
    outcome.op # "none" =>
        IF outcome.raised = "" THEN alive
        ELSE ~alive /\ StructuralError(outcome)

(***************************************************************************)
(* C13.  Outcome summary.  As claimed: after clone, pull, switch and       *)
(* checkout-commits a summary is logged that gives the number attempted,   *)
(* the number succeeded and the size of the roster.                        *)
(***************************************************************************)
SummaryOps == {"clone", "pull", "switch", "checkout-commits"}

Attempted(o) == Cardinality({su \in Ids : o.attempts[su] > 0})

C13_SummaryAfterEveryBatch ==
    (outcome.op \in SummaryOps /\ outcome.raised = "") =>
        outcome.summary =
            <<Cardinality(outcome.ok), Attempted(outcome), Cardinality(outcome.roster)>>

(***************************************************************************)
(* C13, amended.  Only switch logs a summary: the number switched, the     *)
(* number of present repositories (attempted or, in a dry run, only        *)
(* visited) and the size of the roster.  Clone, pull and checkout-commits  *)
(* log no summary.                                                         *)
(***************************************************************************)
C13_SummaryAfterSwitch ==
    /\ outcome.op = "switch" =>
           /\ outcome.summary = <<Cardinality(outcome.ok), Cardinality(outcome.present),
                                  Cardinality(outcome.roster)>>
           /\ ~outcome.dry => outcome.summary[2] = Attempted(outcome)
           /\ outcome.summary[1] = outcome.summary[2] - Cardinality(outcome.stderr)
                                     - (IF outcome.dry THEN outcome.summary[2] ELSE 0)
    /\ outcome.op \in SummaryOps \ {"switch"} => outcome.summary = NoSummary

\* A switch whose summary shows a failure and a repository outside the roster.
C13_Witness ==
    /\ outcome.op = "switch"
    /\ outcome.summary # NoSummary
    /\ outcome.summary[1] < outcome.summary[2]
    /\ outcome.summary[3] < outcome.summary[2]
    /\ outcome.summary[1] > 0

(***************************************************************************)
(* C14.  Dry run on restore.  In a run started with dry_run,               *)
(* checkout-commits calls git checkout in no repository and leaves every   *)
(* repository at the commit it was at.                                     *)
(***************************************************************************)
C14_DryRunRestore ==
    [][(dry_run /\ CheckoutCommits) =>
          /\ outcome'.attempts = NoCalls
          /\ outcome'.ok = {}
          /\ UNCHANGED disk]_vars

(***************************************************************************)
(* C15.  Missing target on restore.  The records warned about and skipped  *)
(* are those whose target path does not exist; for none of them is a       *)
(* checkout attempted or a failure written to stderr; and a skip never     *)
(* ends the loop: the records read are all the lines after the first, or,  *)
(* when the restore raised, all the lines before one that is not two       *)
(* fields.                                                                 *)
(***************************************************************************)
TargetMissing(su) == su # <<>> /\ (su \in Ids => disk[su].kind = "none")

LinesOf(f) == SkipHeader(ReadLines(files[f].text))

C15_MissingTargetSkipped ==
    (outcome.op = "checkout-commits" /\ outcome.raised # "FileNotFoundError") =>
        /\ outcome.skipped = {su \in IdsOf(outcome.recs) : TargetMissing(su)}
        /\ outcome.skipped \cap outcome.stderr = {}
        /\ outcome.skipped \cap outcome.ok = {}
        /\ \A su \in outcome.skipped \cap Ids : outcome.attempts[su] = 0
        /\ \A i \in 1..Len(outcome.recs) :
               outcome.recs[i] = Split(Strip(LinesOf(outcome.file)[i]))
        /\ IF outcome.raised = ""
           THEN Len(outcome.recs) = Len(LinesOf(outcome.file))
           ELSE /\ Len(outcome.recs) < Len(LinesOf(outcome.file))
                /\ Len(Split(Strip(LinesOf(outcome.file)[Len(outcome.recs) + 1]))) # 2

\* A restore that skipped a record and checked out the record after it.
C15_Witness ==
    /\ outcome.op = "checkout-commits"
    /\ \E i, j \in 1..Len(outcome.recs) :
          /\ i < j
          /\ outcome.recs[i][1] \in outcome.skipped
          /\ outcome.recs[j][1] \in outcome.ok

(***************************************************************************)
(* C16.  Frame conditions.  While the object lives, the roster is the one  *)
(* the last call found (outcome.roster); after clone the present set holds *)
(* all it held before (outcome.present); after pull, switch,               *)
(* export-commits and checkout-commits it is what it was before.           *)
(***************************************************************************)
C16_Frame ==
    (alive /\ outcome.op # "none") =>
        /\ su_numbers = outcome.roster
        /\ outcome.op = "clone" => outcome.present \subseteq repos
        /\ outcome.op # "clone" => repos = outcome.present

\* After a pull, switch or restore in which a member failed.
C16_Witness ==
    /\ alive
    /\ outcome.op \in {"pull", "switch", "checkout-commits"}
    /\ outcome.stderr # {}
    /\ repos = outcome.present
    /\ repos # {}
    /\ su_numbers = outcome.roster

(***************************************************************************)
(* C17.  Locate.  The scan of an existing repo_dir raises nothing and      *)
(* changes nothing on disk; the present set it leaves holds every working  *)
(* copy and nothing that lacks the .git marker, so a plain entry and a     *)
(* directory that is not a valid working copy are left out without error.  *)
(***************************************************************************)
C17_LocateExcludesSilently ==
    [][(outcome'.op = "init" /\ repo_dir_exists) =>
          /\ outcome'.raised = ""
          /\ alive'
          /\ {su \in Ids : disk[su].kind = "repo"} \subseteq repos'
          /\ repos' \subseteq {su \in Ids : disk[su].kind \in {"repo", "badgit"}}
          /\ outcome'.present = repos'
          /\ UNCHANGED <<disk, files>>]_vars

(***************************************************************************)
(* C18.  Retry convergence.  The present set of a live run is the working  *)
(* copies on disk, so what a clone works on is the roster members without  *)
(* a working copy; and repeated clone runs whose attempts succeed reach a  *)
(* run in which every roster member is present and the clone working set   *)
(* is empty.                                                               *)
(***************************************************************************)
Converged ==
    /\ alive
    /\ su_numbers \subseteq repos
    /\ CloneWorkingSet(su_numbers, repos) = {}

C18_RetryConverges ==
    /\ [](alive => repos = {su \in Ids : disk[su].kind = "repo"})
    /\ [](outcome.op = "clone" => outcome.ws = outcome.roster \ outcome.present)
    /\ <>Converged

\* The same from a repo_dir that exists and holds nothing but working copies.
ConvergesFromSoundDir ==
    (repo_dir_exists /\ \A su \in Ids : disk[su].kind \in {"none", "repo"}) ~> Converged

\* The present set of a live run is the set of working copies on disk.
PresentIsOnDisk ==
    /\ alive => repos = {su \in Ids : disk[su].kind = "repo"}
    /\ outcome.op = "clone" => outcome.ws = outcome.roster \ outcome.present

====
